---- MODULE Spec2Model ----
(***************************************************************************)
(* Model of src/repositories/router.py: the GitHub OAuth login redirect,   *)
(* the three upstream calls of show_starred_repositories and the pure      *)
(* transformer parse_starred_repos.                                        *)
(*                                                                         *)
(* Python values are records [t |-> <type name>, v |-> <payload>]; a dict  *)
(* is the sequence of its <<key, value>> items in insertion order, which   *)
(* is the order Python keeps and FastAPI serialises.                       *)
(***************************************************************************)
EXTENDS Integers, Sequences, FiniteSets, TLC

VARIABLES
    client_id,           \* module global, router.py:16
    client_secret,       \* module global, router.py:17
    pc,                  \* per request: position of show_starred_repositories
    code,                \* per request: the code query parameter
    headers,             \* per request: local headers dict
    access_token,        \* per request: local access_token
    user,                \* per request: local user
    starred_repos_info,  \* per request: local starred_repos_info
    response,            \* per request: what the client of this request receives
    calls,               \* per request: upstream requests issued, in order
    replies,             \* per request: upstream responses received, in order
    login_response,      \* what the last GET /login answered
    parse_in,            \* argument of a direct parse_starred_repos call
    parse_out            \* its return value

vars == <<client_id, client_secret, pc, code, headers, access_token, user,
          starred_repos_info, response, calls, replies, login_response,
          parse_in, parse_out>>

pipeline_vars == <<pc, code, headers, access_token, user, starred_repos_info,
                   response, calls, replies>>

-----------------------------------------------------------------------------
(* Bounds *)

\* longest raw list handed to parse_starred_repos directly
MaxRepos == 2

\* longest list the starred endpoint answers with in the request pipeline
MaxStarred == 2

\* concurrently handled requests
Requests == {"r1", "r2"}

SeqsUpTo(S, n) == UNION {[1..k -> S] : k \in 0..n}

-----------------------------------------------------------------------------
(* Python values *)

None == [t |-> "None"]
PyStr(s) == [t |-> "str", v |-> s]
PyBool(b) == [t |-> "bool", v |-> b]
PyInt(n) == [t |-> "int", v |-> n]
PyList(q) == [t |-> "list", v |-> q]
PyDict(items) == [t |-> "dict", v |-> items]

\* `not x` is ~Truthy(x): Python's truth value testing
Truthy(x) ==
    CASE x.t = "None" -> FALSE
      [] x.t = "bool" -> x.v
      [] x.t = "int"  -> x.v # 0
      [] x.t = "str"  -> x.v # ""
      [] x.t = "list" -> Len(x.v) > 0
      [] x.t = "dict" -> Len(x.v) > 0

\* list(d.keys()) of a dict d
dict_keys(d) == [i \in 1..Len(d.v) |-> d.v[i][1]]

\* list(d.items())
dict_items(d) == d.v

\* d.get(k): the value under k, None when k is not a key
dict_get(d, k) ==
    IF \E i \in 1..Len(d.v) : d.v[i][1] = k
    THEN d.v[CHOOSE i \in 1..Len(d.v) : d.v[i][1] = k][2]
    ELSE None

\* d[k] = val on an items sequence: overwrite in place, or append a new key
items_set(items, k, val) ==
    IF \E i \in 1..Len(items) : items[i][1] = k
    THEN [i \in 1..Len(items) |-> IF items[i][1] = k THEN <<k, val>> ELSE items[i]]
    ELSE Append(items, <<k, val>>)

\* dict(items): items are set one after the other
RECURSIVE items_fold(_, _)
items_fold(acc, items) ==
    IF items = <<>> THEN acc
    ELSE items_fold(items_set(acc, Head(items)[1], Head(items)[2]), Tail(items))

dict_from_items(items) == PyDict(items_fold(<<>>, items))

\* d.update(other)
dict_update(d, other) == PyDict(items_fold(d.v, other.v))

\* keys.index(k): 0-based position of the first occurrence
list_index(keys, k) == (CHOOSE i \in 1..Len(keys) :
                           keys[i] = k /\ \A j \in 1..(i - 1) : keys[j] # k) - 1

\* items.insert(idx, item) with a 0-based idx in 0..len
list_insert(items, idx, item) ==
    SubSeq(items, 1, idx) \o <<item>> \o SubSeq(items, idx + 1, Len(items))

-----------------------------------------------------------------------------
(* parse_starred_repos, router.py:117-148 *)

\* mutant of is_skipped: private repositories are not skipped
is_skipped_never(repo) == FALSE

\* router.py:125: the body of the loop runs only `if not repo.get("private")`
is_skipped(repo) == Truthy(dict_get(repo, "private"))

\* router.py:128-133
base_repo_dict(repo) ==
    PyDict(<< <<"name", dict_get(repo, "name")>>,
            <<"description", dict_get(repo, "description")>>,
            <<"URL", dict_get(repo, "html_url")>>,
            <<"topics", dict_get(repo, "topics")>> >>)

\* mutant of insert_license: the license is added after the topics key
insert_license_last(repo_dict, repo) ==
    dict_from_items(
        Append(dict_items(repo_dict),
               <<"license", dict_get(dict_get(repo, "license"), "name")>>))

\* router.py:138-143
insert_license(repo_dict, repo) ==
    LET license_index == list_index(dict_keys(repo_dict), "topics")
        repo_items == dict_items(repo_dict)
    IN  dict_from_items(
            list_insert(repo_items, license_index,
                        <<"license", dict_get(dict_get(repo, "license"), "name")>>))

\* router.py:128-143: the dict appended for one repository that is not skipped
essential_repo(repo) ==
    IF dict_get(repo, "license") # None
    THEN insert_license(base_repo_dict(repo), repo)
    ELSE base_repo_dict(repo)

\* mutant of append_repo: the dict is put at the front of the list
append_repo_front(acc, item) == <<item>> \o acc

\* router.py:146
append_repo(acc, item) == Append(acc, item)

\* router.py:123-146: the loop from iteration i on. Each appended dict is kept
\* together with the index of the iteration that appended it.
RECURSIVE parse_loop(_, _, _)
parse_loop(starred_repos, i, acc) ==
    IF i > Len(starred_repos) THEN acc
    ELSE IF is_skipped(starred_repos[i])
         THEN parse_loop(starred_repos, i + 1, acc)
         ELSE parse_loop(starred_repos, i + 1,
                         append_repo(acc, [src |-> i,
                                           repo_dict |-> essential_repo(starred_repos[i])]))

parse_trace(starred_repos) == parse_loop(starred_repos, 1, <<>>)

\* the list the function returns
parse_starred_repos(starred_repos) ==
    LET essential_repos_info == parse_trace(starred_repos)
    IN  [k \in 1..Len(essential_repos_info) |-> essential_repos_info[k].repo_dict]

-----------------------------------------------------------------------------
(* Exceptions and responses *)

\* HTTPException(status_code=..., detail=...) reaching the client
HTTPException(status_code, detail) ==
    [kind |-> "HTTPException", status_code |-> status_code, detail |-> detail]

\* a value returned by a route handler
Returned(body) == [kind |-> "return", body |-> body]

NoResponse == [kind |-> "none"]

\* f"{x}" of a str or of None
fstr(x) == IF x = None THEN "None" ELSE x.v

-----------------------------------------------------------------------------
(* GET /login, router.py:31-43 *)

\* mutant of authorize_url: the client id is left out of the query
authorize_url_no_id(id) == "https://github.com/login/oauth/authorize"

\* router.py:38
authorize_url(id) == "https://github.com/login/oauth/authorize?client_id=" \o id

\* router.py:37-39: RedirectResponse(url) is built without a status_code, so
\* it carries the class's default, 307, and the url as its location header
\* (the percent-quoting the class applies leaves the characters of an OAuth
\* client id unchanged).
RedirectResponse(url) ==
    [kind |-> "RedirectResponse", status_code |-> 307, location |-> url]

\* messages of the exceptions the try block is taken to raise
LoginErrors == {"redirect failed"}

\* router.py:33-39: the try block completes
LoginRedirect ==
    /\ login_response' = RedirectResponse(authorize_url(client_id))
    /\ UNCHANGED <<client_id, client_secret, pipeline_vars, parse_in, parse_out>>

\* router.py:40-43: the try block raises e
LoginFail(e) ==
    /\ login_response' = HTTPException(500, "Error: " \o e)
    /\ UNCHANGED <<client_id, client_secret, pipeline_vars, parse_in, parse_out>>

-----------------------------------------------------------------------------
(* Upstream requests, router.py:46-112 *)

\* router.py:50-61
token_request(c, h) ==
    [method |-> "POST",
     url |-> "https://github.com/login/oauth/access_token",
     params |-> PyDict(<< <<"client_id", PyStr(client_id)>>,
                          <<"client_secret", PyStr(client_secret)>>,
                          <<"code", PyStr(c)>> >>),
     headers |-> h]

\* router.py:80-83
user_request(h) ==
    [method |-> "GET", url |-> "https://api.github.com/user",
     params |-> PyDict(<<>>), headers |-> h]

\* router.py:100-103
starred_request(u, h) ==
    [method |-> "GET",
     url |-> "https://api.github.com/users/" \o fstr(u) \o "/starred",
     params |-> PyDict(<<>>), headers |-> h]

\* mutant of the status checks: the response is taken as a success
never_failed(status_code) == FALSE

\* router.py:65
token_request_failed(status_code) == status_code # 200

\* router.py:85
user_request_failed(status_code) == status_code # 200

\* router.py:105
starred_request_failed(status_code) == status_code # 200

\* mutant of token_error: the provider's status is replaced by 500
token_error_500(status_code) == HTTPException(500, "Access token retrieving failed")

\* router.py:66-69
token_error(status_code) == HTTPException(status_code, "Access token retrieving failed")

\* router.py:86-89
user_error(status_code) == HTTPException(status_code, "Failed to retrieve user information.")

\* router.py:106-109
starred_error(status_code) ==
    HTTPException(status_code, "Failed to retrieve starred repositories information.")

\* mutant of token_missing: only a None token counts as missing
token_missing_only_none(tok) == tok = None

\* router.py:163
token_missing(tok) == ~Truthy(tok)

\* router.py:165-167
missing_token_error == HTTPException(400, "Access token missing.")

\* router.py:160
initial_headers == PyDict(<< <<"Accept", PyStr("application/json")>> >>)

\* mutant of headers_after_update: one headers dict shared by all requests
headers_after_update_shared(hs, r, tok) ==
    [q \in DOMAIN hs |->
        IF hs[q] = None /\ q # r THEN None
        ELSE dict_update(IF hs[q] = None THEN PyDict(<<>>) ELSE hs[q],
                 PyDict(<< <<"Authorization", PyStr("Bearer " \o fstr(tok))>> >>))]

\* router.py:170, on the headers dict that is local to request r
headers_after_update(hs, r, tok) ==
    [hs EXCEPT ![r] = dict_update(@,
        PyDict(<< <<"Authorization", PyStr("Bearer " \o fstr(tok))>> >>))]

\* mutant of show_result: the count is taken after the private ones are dropped
show_result_filtered_count(raw) ==
    PyDict(<< <<"starred_repositories_count", PyInt(Len(parse_starred_repos(raw)))>>,
              <<"starred_repositories", PyList(parse_starred_repos(raw))>> >>)

\* router.py:175-180
show_result(raw) ==
    PyDict(<< <<"starred_repositories_count", PyInt(Len(raw))>>,
              <<"starred_repositories", PyList(parse_starred_repos(raw))>> >>)

-----------------------------------------------------------------------------
(* What the provider may answer *)

Reply(status_code, json) == [status_code |-> status_code, json |-> json]

ErrorBody == PyDict(<< <<"message", PyStr("Bad credentials")>> >>)

Codes == {"c1", "c2"}

TokenBody(tok) == PyDict(<< <<"access_token", tok>> >>)

TokenBodies ==
    { PyDict(<< <<"error", PyStr("bad_verification_code")>> >>),
      TokenBody(None), TokenBody(PyStr("")),
      TokenBody(PyStr("tokA")), TokenBody(PyStr("tokB")) }

TokenReplies ==
    {Reply(200, b) : b \in TokenBodies}
        \cup {Reply(401, ErrorBody), Reply(201, TokenBody(PyStr("tokA")))}

UserBodies == { PyDict(<< <<"login", PyStr("alice")>> >>), PyDict(<< <<"id", PyInt(7)>> >>) }

UserReplies ==
    {Reply(200, b) : b \in UserBodies}
        \cup {Reply(403, ErrorBody), Reply(204, PyDict(<<>>))}

\* field value standing for "the key is not in the object"
Absent == [t |-> "absent"]

Field(k, val) == IF val = Absent THEN <<>> ELSE << <<k, val>> >>

RawRepo(name, private, license) ==
    PyDict(<< <<"name", PyStr(name)>> >> \o Field("private", private)
           \o << <<"description", None>>,
                 <<"html_url", PyStr("https://github.com/o/" \o name)>>,
                 <<"topics", PyList(<<"t-" \o name>>)>> >>
           \o Field("license", license))

MIT == PyDict(<< <<"key", PyStr("mit")>>, <<"name", PyStr("MIT")>> >>)

\* the repositories the starred endpoint lists in the request pipeline
StarredEntries ==
    { RawRepo("a", PyBool(FALSE), MIT),
      RawRepo("b", PyBool(TRUE), None) }

StarredReplies ==
    {Reply(200, PyList(q)) : q \in SeqsUpTo(StarredEntries, MaxStarred)}
        \cup {Reply(404, ErrorBody), Reply(202, PyList(<<>>))}

-----------------------------------------------------------------------------
(* GET /essential-starred-repositories-information, router.py:157-180 *)

Issue(r, req) == calls' = [calls EXCEPT ![r] = Append(@, req)]
Receive(r, rep) == replies' = [replies EXCEPT ![r] = Append(@, rep)]
Raise(r, exc) ==
    /\ response' = [response EXCEPT ![r] = exc]
    /\ pc' = [pc EXCEPT ![r] = "done"]

\* router.py:158-161 up to the await of client.post (router.py:57)
Call(r, c) ==
    /\ pc[r] = "idle"
    /\ code' = [code EXCEPT ![r] = PyStr(c)]
    /\ headers' = [headers EXCEPT ![r] = initial_headers]
    /\ Issue(r, token_request(c, initial_headers))
    /\ pc' = [pc EXCEPT ![r] = "fetch_access_token"]
    /\ UNCHANGED <<client_id, client_secret, access_token, user, starred_repos_info,
                   response, replies, login_response, parse_in, parse_out>>

\* router.py:57-72 and 161-172: the token response arrives; up to the await
\* of client.get in fetch_user (router.py:80)
TokenReply(r, rep) ==
    /\ pc[r] = "fetch_access_token"
    /\ Receive(r, rep)
    /\ IF token_request_failed(rep.status_code)
       THEN /\ Raise(r, token_error(rep.status_code))
            /\ UNCHANGED <<access_token, headers, calls>>
       ELSE LET tok == dict_get(rep.json, "access_token") IN
            /\ access_token' = [access_token EXCEPT ![r] = tok]
            /\ IF token_missing(tok)
               THEN /\ Raise(r, missing_token_error)
                    /\ UNCHANGED <<headers, calls>>
               ELSE /\ headers' = headers_after_update(headers, r, tok)
                    /\ Issue(r, user_request(headers'[r]))
                    /\ pc' = [pc EXCEPT ![r] = "fetch_user"]
                    /\ UNCHANGED response
    /\ UNCHANGED <<client_id, client_secret, code, user, starred_repos_info,
                   login_response, parse_in, parse_out>>

\* router.py:80-93 and 172-173: the identity response arrives; up to the
\* await of client.get in fetch_starred_repos (router.py:100)
UserReply(r, rep) ==
    /\ pc[r] = "fetch_user"
    /\ Receive(r, rep)
    /\ IF user_request_failed(rep.status_code)
       THEN /\ Raise(r, user_error(rep.status_code))
            /\ UNCHANGED <<user, calls>>
       ELSE LET login == dict_get(rep.json, "login") IN
            /\ user' = [user EXCEPT ![r] = login]
            /\ Issue(r, starred_request(login, headers[r]))
            /\ pc' = [pc EXCEPT ![r] = "fetch_starred_repos"]
            /\ UNCHANGED response
    /\ UNCHANGED <<client_id, client_secret, code, headers, access_token,
                   starred_repos_info, login_response, parse_in, parse_out>>

\* router.py:100-112 and 173-180: the starred response arrives; the handler
\* returns
StarredReply(r, rep) ==
    /\ pc[r] = "fetch_starred_repos"
    /\ Receive(r, rep)
    /\ IF starred_request_failed(rep.status_code)
       THEN /\ Raise(r, starred_error(rep.status_code))
            /\ UNCHANGED starred_repos_info
       ELSE /\ starred_repos_info' = [starred_repos_info EXCEPT ![r] = rep.json]
            /\ response' = [response EXCEPT ![r] = Returned(show_result(rep.json.v))]
            /\ pc' = [pc EXCEPT ![r] = "done"]
    /\ UNCHANGED <<client_id, client_secret, code, headers, access_token, user,
                   calls, login_response, parse_in, parse_out>>

-----------------------------------------------------------------------------
(* Specification of the two routes *)

NotCalled == [t |-> "not called"]

InitPipeline ==
    /\ client_id = "Iv1.0123456789abcdef"
    /\ client_secret = "s3cr3t"
    /\ pc = [r \in Requests |-> "idle"]
    /\ code = [r \in Requests |-> None]
    /\ headers = [r \in Requests |-> None]
    /\ access_token = [r \in Requests |-> None]
    /\ user = [r \in Requests |-> None]
    /\ starred_repos_info = [r \in Requests |-> None]
    /\ response = [r \in Requests |-> NoResponse]
    /\ calls = [r \in Requests |-> <<>>]
    /\ replies = [r \in Requests |-> <<>>]
    /\ login_response = NoResponse

Init ==
    /\ InitPipeline
    /\ parse_in = <<>>
    /\ parse_out = NotCalled

Next ==
    \/ LoginRedirect
    \/ \E e \in LoginErrors : LoginFail(e)
    \/ \E r \in Requests, c \in Codes : Call(r, c)
    \/ \E r \in Requests, rep \in TokenReplies : TokenReply(r, rep)
    \/ \E r \in Requests, rep \in UserReplies : UserReply(r, rep)
    \/ \E r \in Requests, rep \in StarredReplies : StarredReply(r, rep)

Spec == Init /\ [][Next]_vars

-----------------------------------------------------------------------------
(* Specification of parse_starred_repos called on its own *)

PrivateValues == {Absent, None, PyBool(FALSE), PyBool(TRUE), PyInt(1), PyStr("")}

LicenseValues == {Absent, None, MIT, PyDict(<<>>)}

RawRepos ==
    {RawRepo(n, p, l) : n \in {"a", "b"}, p \in PrivateValues, l \in LicenseValues}

InitParse ==
    /\ InitPipeline
    /\ parse_in \in SeqsUpTo(RawRepos, MaxRepos)
    /\ parse_out = NotCalled

ParseCall ==
    /\ parse_out = NotCalled
    /\ parse_out' = PyList(parse_starred_repos(parse_in))
    /\ UNCHANGED <<client_id, client_secret, pipeline_vars, login_response, parse_in>>

NextParse == ParseCall

SpecParse == InitParse /\ [][NextParse]_vars

-----------------------------------------------------------------------------
(* Properties of parse_starred_repos, checked under SpecParse *)

ParseDone == parse_out # NotCalled

\* indices of parse_in in the order in which the loop appended their dicts
Sources ==
    LET trace == parse_trace(parse_in)
    IN  [k \in 1..Len(trace) |-> trace[k].src]

\* number of entries of the index sequence srcs that are i
Produced(srcs, i) == Cardinality({k \in 1..Len(srcs) : srcs[k] = i})

OrderKept(srcs) == \A j, k \in 1..Len(srcs) : j < k => srcs[j] < srcs[k]

\* C2: no returned dict comes from an entry whose private flag is true; every
\* returned dict is the projection of an entry that is not private.
C2_NoPrivateInOutput ==
    ParseDone =>
        LET srcs == Sources IN
        /\ Len(parse_out.v) = Len(srcs)
        /\ \A k \in 1..Len(srcs) :
              /\ dict_get(parse_in[srcs[k]], "private") # PyBool(TRUE)
              /\ dict_get(parse_out.v[k], "name") = dict_get(parse_in[srcs[k]], "name")

C2_Witness ==
    /\ ParseDone
    /\ Len(parse_in) = 2
    /\ dict_get(parse_in[1], "private") = PyBool(TRUE)
    /\ dict_get(parse_in[2], "private") = PyBool(FALSE)
    /\ Len(parse_out.v) = 1

\* C3 as stated: every entry whose private value is anything but true yields
\* exactly one returned dict, and the returned dicts keep the entries' order.
C3_EveryNonTrueKept ==
    ParseDone =>
        LET srcs == Sources IN
        /\ \A i \in 1..Len(parse_in) :
              dict_get(parse_in[i], "private") # PyBool(TRUE) => Produced(srcs, i) = 1
        /\ OrderKept(srcs)

\* C3 amended: every entry whose private value is falsy (false, null, missing,
\* 0, an empty string) yields exactly one returned dict, every entry whose
\* private value is truthy yields none, and the returned dicts keep the
\* entries' order.
C3_EveryFalsyKept ==
    ParseDone =>
        LET srcs == Sources IN
        /\ \A i \in 1..Len(parse_in) :
              Produced(srcs, i) = IF Truthy(dict_get(parse_in[i], "private")) THEN 0 ELSE 1
        /\ OrderKept(srcs)
        /\ Len(parse_out.v) = Len(srcs)
        /\ \A k \in 1..Len(srcs) :
              dict_get(parse_out.v[k], "name") = dict_get(parse_in[srcs[k]], "name")

C3_Witness ==
    /\ ParseDone
    /\ Len(parse_in) = 2
    /\ \A i \in 1..2 : \A kv \in {parse_in[i].v[j] : j \in 1..Len(parse_in[i].v)} :
          kv[1] # "private"
    /\ dict_get(parse_in[1], "name") = PyStr("b")
    /\ dict_get(parse_in[2], "name") = PyStr("a")
    /\ Len(parse_out.v) = 2

KeysWithLicense == <<"name", "description", "URL", "license", "topics">>
KeysWithoutLicense == <<"name", "description", "URL", "topics">>

\* C4: a returned dict has the keys name, description, URL, license, topics in
\* this order, license holding the license's name, when its entry's license
\* is not null; and the keys name, description, URL, topics, with no license
\* key, when the entry has no license or a null one.
C4_KeyOrder ==
    ParseDone =>
        LET srcs == Sources IN
        \A k \in 1..Len(parse_out.v) :
            LET repo == parse_in[srcs[k]]
                out == parse_out.v[k]
            IN  IF dict_get(repo, "license") # None
                THEN /\ dict_keys(out) = KeysWithLicense
                     /\ dict_get(out, "license") = dict_get(dict_get(repo, "license"), "name")
                     /\ dict_get(out, "topics") = dict_get(repo, "topics")
                ELSE /\ dict_keys(out) = KeysWithoutLicense
                     /\ dict_get(out, "topics") = dict_get(repo, "topics")

C4_Witness ==
    /\ ParseDone
    /\ Len(parse_out.v) = 2
    /\ dict_keys(parse_out.v[1]) = KeysWithLicense
    /\ dict_get(parse_out.v[1], "license") = PyStr("MIT")
    /\ dict_keys(parse_out.v[2]) = KeysWithoutLicense
    /\ dict_get(parse_in[2], "license") = None

-----------------------------------------------------------------------------
(* Properties of the two routes, checked under Spec *)

TokenUrl == "https://github.com/login/oauth/access_token"
UserUrl == "https://api.github.com/user"

\* the token the provider handed to request r
OwnToken(r) == dict_get(replies[r][1].json, "access_token")

\* the login the provider reported to request r
OwnLogin(r) == dict_get(replies[r][2].json, "login")

\* all three upstream calls of r were answered 200, the first with a token
Successful(r) ==
    /\ Len(replies[r]) = 3
    /\ \A k \in 1..3 : replies[r][k].status_code = 200
    /\ OwnToken(r) \notin {None, PyStr("")}

PrivateCount(raw) ==
    Cardinality({i \in 1..Len(raw) : dict_get(raw[i], "private") = PyBool(TRUE)})

\* C1: a successful run returns starred_repositories_count equal to the
\* length of the raw list the starred endpoint answered with; the count is
\* the length of the returned starred_repositories only when no entry is
\* private.
C1_CountIsRawLength ==
    \A r \in Requests : Successful(r) =>
        LET raw == replies[r][3].json.v IN
        /\ response[r].kind = "return"
        /\ dict_get(response[r].body, "starred_repositories_count") = PyInt(Len(raw))
        /\ dict_get(response[r].body, "starred_repositories").v = parse_starred_repos(raw)
        /\ (PrivateCount(raw) > 0 =>
              Len(dict_get(response[r].body, "starred_repositories").v) < Len(raw))

C1_Witness ==
    \E r \in Requests :
        /\ Successful(r)
        /\ Len(replies[r][3].json.v) = 2
        /\ PrivateCount(replies[r][3].json.v) = 1
        /\ dict_get(response[r].body, "starred_repositories_count") = PyInt(2)
        /\ Len(dict_get(response[r].body, "starred_repositories").v) = 1

\* the token endpoint answered r with 200 and a body without a usable token
TokenLacking(r) ==
    /\ Len(replies[r]) >= 1
    /\ replies[r][1].status_code = 200
    /\ OwnToken(r) \in {None, PyStr("")}

\* C5: a 200 token response without an access_token (absent, null or empty)
\* fails the request with 400 "Access token missing.", and neither the
\* identity call nor the starred call is issued in that request.
C5_MissingToken ==
    \A r \in Requests : TokenLacking(r) =>
        /\ response[r] = [kind |-> "HTTPException", status_code |-> 400,
                          detail |-> "Access token missing."]
        /\ Len(calls[r]) = 1
        /\ calls[r][1].url = TokenUrl
        /\ Len(replies[r]) = 1

C5_Witness ==
    /\ TokenLacking("r1")
    /\ replies["r1"][1].json = TokenBody(PyStr(""))
    /\ TokenLacking("r2")
    /\ dict_keys(replies["r2"][1].json) = <<"error">>
    /\ response["r1"].kind = "HTTPException"

StepDetail ==
    <<"Access token retrieving failed",
      "Failed to retrieve user information.",
      "Failed to retrieve starred repositories information.">>

IsSuccessStatus(s) == s \in 200..299

\* the response of r is the upstream error of step k
IsUpstreamError(r, k) ==
    /\ response[r].kind = "HTTPException"
    /\ response[r].detail = StepDetail[k]

\* C6 as stated: a non-success status S of an upstream call fails the request
\* with status S, and a success status is never turned into an upstream error.
C6_SuccessNeverAnError ==
    \A r \in Requests : \A k \in 1..Len(replies[r]) :
        LET s == replies[r][k].status_code IN
        /\ ~IsSuccessStatus(s) => IsUpstreamError(r, k) /\ response[r].status_code = s
        /\ IsSuccessStatus(s) => ~IsUpstreamError(r, k)

\* C6 amended: any status S other than 200 of an upstream call fails the
\* request with the error of that call carrying status S, and a response
\* with status 200 is never turned into an upstream error.
C6_Non200Propagates ==
    \A r \in Requests : \A k \in 1..Len(replies[r]) :
        LET s == replies[r][k].status_code IN
        /\ s # 200 => IsUpstreamError(r, k) /\ response[r].status_code = s
        /\ s = 200 => ~IsUpstreamError(r, k)

C6_Witness ==
    /\ Len(replies["r1"]) = 1
    /\ replies["r1"][1].status_code = 401
    /\ response["r1"].status_code = 401
    /\ Len(replies["r2"]) = 3
    /\ replies["r2"][3].status_code = 202
    /\ response["r2"].status_code = 202

\* step k of request r raised an upstream failure
FailedAt(r, k) ==
    /\ Len(replies[r]) = k
    /\ replies[r][k].status_code # 200

\* C7: a failure raised by step k ends the request: no later upstream call
\* is issued, nothing is transformed, no success body is returned, and the
\* client sees the error of step k with its status and message.
C7_ShortCircuit ==
    \A r \in Requests : \A k \in 1..3 : FailedAt(r, k) =>
        /\ Len(calls[r]) = k
        /\ pc[r] = "done"
        /\ starred_repos_info[r] = None
        /\ response[r] = [kind |-> "HTTPException",
                          status_code |-> replies[r][k].status_code,
                          detail |-> StepDetail[k]]

C7_Witness ==
    /\ FailedAt("r1", 2)
    /\ replies["r1"][2].status_code = 403
    /\ FailedAt("r2", 3)
    /\ replies["r2"][3].status_code = 404
    /\ response["r2"].status_code = 404

IsPrefix(s, t) == Len(s) <= Len(t) /\ \A i \in 1..Len(s) : s[i] = t[i]

\* the endpoint each issued call of r went to
CallKinds(r) ==
    [k \in 1..Len(calls[r]) |->
        IF calls[r][k].url = TokenUrl /\ calls[r][k].method = "POST" THEN "token"
        ELSE IF calls[r][k].url = UserUrl /\ calls[r][k].method = "GET" THEN "user"
        ELSE "starred"]

\* C8: the calls of a request are issued in the order token, identity,
\* starred, each at most once; a call is issued only when every earlier call
\* was answered with 200 (the token call with a token).
C8_CallOrder ==
    \A r \in Requests :
        /\ IsPrefix(CallKinds(r), <<"token", "user", "starred">>)
        /\ Len(replies[r]) \in {Len(calls[r]) - 1, Len(calls[r])}
        /\ \A k \in 1..(Len(calls[r]) - 1) :
              /\ k <= Len(replies[r])
              /\ replies[r][k].status_code = 200
        /\ Len(calls[r]) >= 2 => Truthy(OwnToken(r))

C8_Witness ==
    /\ CallKinds("r1") = <<"token", "user", "starred">>
    /\ Len(replies["r1"]) = 2
    /\ CallKinds("r2") = <<"token", "user">>
    /\ Len(replies["r2"]) = 2
    /\ pc["r2"] = "done"

AuthorizePrefix == "https://github.com/login/oauth/authorize?client_id="

\* C9 as stated: GET /login answers with a 302 redirect to the authorize URL
\* with the configured client id, or with a status-500 error.
C9_Redirect302 ==
    login_response # NoResponse =>
        \/ /\ login_response.kind = "RedirectResponse"
           /\ login_response.status_code = 302
           /\ login_response.location = AuthorizePrefix \o client_id
        \/ /\ login_response.kind = "HTTPException"
           /\ login_response.status_code = 500

\* C9 amended: GET /login answers with a 307 redirect (the status a
\* RedirectResponse built without a status_code carries) to the authorize URL
\* with the configured client id; when building it raises, the answer is a
\* status-500 error whose detail is "Error: " and the exception's message,
\* and the route can be served again.
C9_Redirect307 ==
    login_response # NoResponse =>
        \/ /\ login_response.kind = "RedirectResponse"
           /\ login_response.status_code = 307
           /\ login_response.location = AuthorizePrefix \o client_id
        \/ /\ login_response.kind = "HTTPException"
           /\ login_response.status_code = 500
           /\ login_response.detail \in {"Error: " \o e : e \in LoginErrors}
           /\ ENABLED LoginRedirect

C9_Witness ==
    /\ login_response.kind = "RedirectResponse"
    /\ login_response.location =
          "https://github.com/login/oauth/authorize?client_id=Iv1.0123456789abcdef"

Bearer(tok) == PyStr("Bearer " \o fstr(tok))

\* C10: every upstream call of a request carries that request's own code,
\* token and login; two requests that received the same upstream answers
\* have the same response; client_id and client_secret keep their start-up
\* values.
C10_Isolation ==
    /\ client_id = "Iv1.0123456789abcdef"
    /\ client_secret = "s3cr3t"
    /\ \A r \in Requests :
          /\ Len(calls[r]) >= 1 =>
                /\ dict_get(calls[r][1].params, "code") = code[r]
                /\ dict_get(calls[r][1].params, "client_id") = PyStr(client_id)
                /\ dict_get(calls[r][1].params, "client_secret") = PyStr(client_secret)
                /\ dict_keys(calls[r][1].headers) = <<"Accept">>
          /\ Len(calls[r]) >= 2 =>
                /\ dict_get(calls[r][2].headers, "Authorization") = Bearer(OwnToken(r))
                /\ access_token[r] = OwnToken(r)
          /\ Len(calls[r]) >= 3 =>
                /\ dict_get(calls[r][3].headers, "Authorization") = Bearer(OwnToken(r))
                /\ calls[r][3].url = "https://api.github.com/users/"
                                         \o fstr(OwnLogin(r)) \o "/starred"
                /\ user[r] = OwnLogin(r)
    /\ \A r, q \in Requests : replies[r] = replies[q] => response[r] = response[q]

C10_Witness ==
    /\ pc["r1"] = "fetch_starred_repos"
    /\ pc["r2"] = "fetch_starred_repos"
    /\ code["r1"] # code["r2"]
    /\ OwnToken("r1") = PyStr("tokA")
    /\ OwnToken("r2") = PyStr("tokB")
    /\ OwnLogin("r1") # OwnLogin("r2")

====
